---- MODULE Spec2Model ----
(***************************************************************************)
(* A model of the two memory-management primitives of the repository:      *)
(*   LinearAllocator   - bump allocation over a caller-supplied buffer     *)
(*   BlockAllocator    - typed pool growing in chunks of BlockSize slots   *)
(* Both source files define both classes.  The LinearAllocator code is the *)
(* same in the two files; the BlockAllocator code differs (ownership of    *)
(* the chunk memory, destructor, null check in free), so the file modelled *)
(* is part of the state: variant.                                          *)
(***************************************************************************)
EXTENDS Integers, Sequences, FiniteSets, TLC

\* ------------------------------------------------------------------ bounds

\* Width of size_t in bits; arithmetic on sizes is modulo 2^SizeBits.
SizeBits == 3

\* Number of distinct caller buffers handed to LinearAllocator::init.
NumBuffers == 2

\* The template parameter BlockSize / block_size: slots per chunk.
BlockSize == 2

\* The chunks a BlockAllocator grows to in the model.
MaxBlocks == 3

\* The addresses the raw-memory backend can return for a chunk.
NumAddrs == 3

\* The free calls made on a BlockAllocator in the model.
MaxFrees == 2

\* The allocations of a LinearAllocator run that are remembered.
MaxRun == 3

SizeModulus == 2 ^ SizeBits

\* The values of size_t.
SizeT == 0 .. (SizeModulus - 1)

\* nullptr, as an address.
NULL == 0

\* Start addresses of the caller's buffers, far enough apart that
\* [b, b + capacity) never meets another buffer.
Buffers == { k * SizeModulus : k \in 1 .. NumBuffers }

\* Unsigned addition and subtraction of size_t.
AddSizeT(a, b) == (a + b) % SizeModulus

SubSizeT(a, b) == (a - b + SizeModulus) % SizeModulus

\* std::min
Min(a, b) == IF b < a THEN b ELSE a

VARIABLES
    data,       \* LinearAllocator::data      (NULL or a buffer's start)
    capacity,   \* LinearAllocator::capacity
    offset,     \* LinearAllocator::offset
    lin_op,     \* the last LinearAllocator call: "none", "init", ...
    lin_arg,    \* its size argument (0 for reset)
    lin_ret,    \* the value returned by the last allocate (NULL otherwise)
    variant,    \* the file whose BlockAllocator runs
    status,     \* "alive", "destroyed" (destructor ran) or "crashed"
    blocks,     \* BlockAllocator::blocks: the Block records, [mem |-> address]
    blocks_cap, \* capacity of the std::vector holding blocks
    free_list,  \* BlockAllocator::free_list: a sequence of T*
    heap,       \* the raw-memory backend: address -> "fresh" (never handed
                \* out), "acquired" or "released"
    objects,    \* slot -> "raw" (never constructed), "live" or "dead"
    handed,     \* slot -> pointers to it the caller got and has not freed
    td_bad,     \* slots the allocator's teardown destructed with no live T
    rel_twice,  \* an address was released while it was not acquired
    ba_prev,    \* the BlockAllocator call before the last
    ba_op,      \* the last BlockAllocator call
    ba_arg,     \* the pointer passed to the last call, when it was a free,
                \* or to the free right before the last call
    ba_ret,     \* the pointer returned by the last call, when an allocate
    ba_grew,    \* the last call added a chunk
    frees,      \* the number of free calls made
    fresh_run,  \* the allocate calls made so far, in order, while no free
                \* call has been made (empty afterwards)
    lin_prev,   \* the LinearAllocator call before the last
    lin_mark,   \* progress of a sequence allocate(k), free(k), allocate(k):
                \* its stage, k, and the address and offset of the first call
    lin_run,    \* the last successful allocate calls of sizes 1..capacity,
                \* with no init, free or reset in between: address and size
    grow_run,   \* the pointers allocate() returned since the last call that
                \* added a chunk, with no other call in between
    twin,       \* a second BlockAllocator, of Allocator.hpp, given the same
                \* calls: [blocks, free_list, ret]
    pairs       \* the pointers the caller holds of both allocators, as
                \* <<pointer of the first, pointer of the second>>

linVars == <<data, capacity, offset, lin_op, lin_arg, lin_ret>>

blockVars == <<variant, status, blocks, blocks_cap, free_list, heap, objects,
               handed, td_bad, rel_twice, ba_prev, ba_op, ba_arg, ba_ret, ba_grew,
          frees, fresh_run>>

vars == <<data, capacity, offset, lin_op, lin_arg, lin_ret,
          variant, status, blocks, blocks_cap, free_list, heap, objects,
          handed, td_bad, rel_twice, ba_prev, ba_op, ba_arg, ba_ret, ba_grew,
          frees, fresh_run, lin_prev, lin_mark, lin_run,
          grow_run, twin, pairs>>

linHistVars == <<lin_prev, lin_mark, lin_run>>

blockHistVars == <<grow_run, twin, pairs>>

\* ------------------------------------------------------- LinearAllocator

\* The default member initializers.
LinearInit ==
    /\ data = NULL
    /\ capacity = 0
    /\ offset = 0
    /\ lin_op = "none"
    /\ lin_arg = 0
    /\ lin_ret = NULL

\* A faulty variant of ResetOffset: the offset is left as it is.
ResetOffset_stale == offset

\* reset(): offset = 0.
ResetOffset == 0

\* init(mem, size)
LA_init(mem, size) ==
    /\ data' = mem
    /\ capacity' = size
    /\ offset' = ResetOffset
    /\ lin_op' = "init"
    /\ lin_arg' = size
    /\ lin_ret' = NULL
    /\ UNCHANGED blockVars

\* The test of allocate: "offset + size > capacity", in size_t arithmetic.
OutOfSpace(off, size, cap) == AddSizeT(off, size) > cap

\* A faulty variant of BumpPtr: the pointer is taken after the bump.
BumpPtr_afterBump(d, off, size) == d + off + size

\* ptr = data + offset
BumpPtr(d, off, size) == d + off

\* offset += size
Bumped(off, size) == AddSizeT(off, size)

\* allocate(size)
LA_allocate(size) ==
    /\ lin_op' = "allocate"
    /\ lin_arg' = size
    /\ IF OutOfSpace(offset, size, capacity)
       THEN /\ lin_ret' = NULL
            /\ UNCHANGED <<data, capacity, offset>>
       ELSE /\ lin_ret' = BumpPtr(data, offset, size)
            /\ offset' = Bumped(offset, size)
            /\ UNCHANGED <<data, capacity>>
    /\ UNCHANGED blockVars

\* A faulty variant of FreeAmount: no clamp to the offset.
FreeAmount_unclamped(size, off) == size

\* A faulty variant of FreeAmount: std::max in place of std::min.
FreeAmount_max(size, off) == IF size > off THEN size ELSE off

\* size = std::min(size, offset)
FreeAmount(size, off) == Min(size, off)

\* free(size)
LA_free(size) ==
    /\ offset' = SubSizeT(offset, FreeAmount(size, offset))
    /\ lin_op' = "free"
    /\ lin_arg' = size
    /\ lin_ret' = NULL
    /\ UNCHANGED <<data, capacity>>
    /\ UNCHANGED blockVars

\* reset()
LA_reset ==
    /\ offset' = ResetOffset
    /\ lin_op' = "reset"
    /\ lin_arg' = 0
    /\ lin_ret' = NULL
    /\ UNCHANGED <<data, capacity>>
    /\ UNCHANGED blockVars


\* -------------------------------------------------------- BlockAllocator

Variants == {"Allocator.hpp", "allocator.hpp"}

\* Chunk addresses of the raw-memory backend (ALLOCATOR_ALLOC, operator new).
Addrs == 1 .. NumAddrs

\* A T* into a chunk: <<chunk address, slot index>> stands for
\* reinterpret_cast<T*>(chunk) + index.
Slots == Addrs \X (0 .. (BlockSize - 1))

NullPtr == <<NULL, 0>>

\* blocks and free_list start empty; no chunk is acquired.
BlockInit ==
    /\ variant \in Variants
    /\ status = "alive"
    /\ blocks = <<>>
    /\ blocks_cap = 0
    /\ free_list = <<>>
    /\ heap = [a \in Addrs |-> "fresh"]
    /\ objects = [s \in Slots |-> "raw"]
    /\ handed = [s \in Slots |-> 0]
    /\ td_bad = {}
    /\ rel_twice = FALSE
    /\ ba_prev = "none"
    /\ ba_op = "none"
    /\ ba_grew = FALSE
    /\ ba_arg = NullPtr
    /\ ba_ret = NullPtr
    /\ frees = 0
    /\ fresh_run = <<>>

\* The capacity std::vector<Block> takes when emplace_back finds it full:
\* doubling (libstdc++, libc++) or growth by half (MSVC), at least one more.
NewCaps(cap) ==
    { IF cap = 0 THEN 1 ELSE 2 * cap,
      IF cap + (cap \div 2) > cap THEN cap + (cap \div 2) ELSE cap + 1 }

\* The addresses ALLOCATOR_ALLOC (std::malloc) or operator new can return:
\* any address not acquired now, so also one released earlier.  Addresses
\* never handed out are interchangeable: the lowest stands for them.
AllocChoices(h) ==
    { a \in Addrs : h[a] = "released" } \cup
    { a \in Addrs : h[a] = "fresh" /\ \A b \in Addrs : h[b] = "fresh" => a <= b }

RECURSIVE ReleaseAll(_, _)
\* ~Block() of allocator.hpp on each record of bs in turn:
\* ALLOCATOR_FREE(mem.data()).  twice: some address was not acquired when
\* it was released.
ReleaseAll(h, bs) ==
    IF bs = <<>>
    THEN [heap |-> h, twice |-> FALSE]
    ELSE LET a == Head(bs).mem
             r == ReleaseAll([h EXCEPT ![a] = "released"], Tail(bs))
         IN  [heap |-> r.heap, twice |-> r.twice \/ h[a] # "acquired"]

\* What the relocation of the Block records does to the chunk memory.
\* allocator.hpp: Block has a destructor and no move constructor, so the
\* records are copied to the new storage and the old ones destroyed, which
\* releases the memory the copies still point to.
\* Allocator.hpp: Block holds a std::vector<uint8_t>, which is moved.
Relocate(v, h, bs) ==
    IF v = "allocator.hpp"
    THEN ReleaseAll(h, bs)
    ELSE [heap |-> h, twice |-> FALSE]

\* blocks.emplace_back() with the new chunk at address a (allocator.hpp:
\* Block() acquires it while the record is constructed; Allocator.hpp:
\* block.memory.resize(...) right after).  The new record is constructed
\* before the old ones are relocated.
EmplaceBack(v, bs, cap, h, a, newcap) ==
    LET h1 == [h EXCEPT ![a] = "acquired"]
        r  == IF Len(bs) = cap
              THEN Relocate(v, h1, bs)
              ELSE [heap |-> h1, twice |-> FALSE]
    IN  [blocks |-> Append(bs, [mem |-> a]),
         cap    |-> IF Len(bs) = cap THEN newcap ELSE cap,
         heap   |-> IF v = "allocator.hpp" THEN r.heap ELSE h1,
         ub     |-> r.twice]

\* A faulty variant of PushSlots: the loop runs from the last slot down.
PushSlots_reversed(fl, a) == fl \o [i \in 1 .. BlockSize |-> <<a, BlockSize - i>>]

\* A faulty variant of PushSlots: the loop stops one slot early.
PushSlots_short(fl, a) == fl \o [i \in 1 .. (BlockSize - 1) |-> <<a, i - 1>>]

\* for (i = 0; i < BlockSize; ++i) free_list.push_back(start_ptr + i)
PushSlots(fl, a) == fl \o [i \in 1 .. BlockSize |-> <<a, i - 1>>]

\* A faulty variant of NeedGrowth: grows while one slot is still free.
NeedGrowth_early(fl) == Len(fl) <= 1

\* free_list.empty()
NeedGrowth(fl) == fl = <<>>

\* free_list.back() and free_list.pop_back()
Back(fl) == fl[Len(fl)]

PopBack(fl) == SubSeq(fl, 1, Len(fl) - 1)

\* A faulty variant of PushBack: the pointer goes to the front.
PushBack_front(fl, ptr) == <<ptr>> \o fl

\* free_list.push_back(ptr)
PushBack(fl, ptr) == Append(fl, ptr)

\* The outcomes of a step that ran into undefined behaviour: it goes on, or
\* the process dies.
Outcomes(ub) == IF ub THEN {"alive", "crashed"} ELSE {"alive"}

\* allocate(args...)
BA_allocate ==
    /\ status = "alive"
    /\ \E a \in Addrs, newcap \in NewCaps(blocks_cap) :
        LET grow == NeedGrowth(free_list)
            e    == IF grow
                    THEN EmplaceBack(variant, blocks, blocks_cap, heap, a, newcap)
                    ELSE [blocks |-> blocks, cap |-> blocks_cap,
                          heap |-> heap, ub |-> FALSE]
            fl   == IF grow THEN PushSlots(free_list, a) ELSE free_list
            ptr  == Back(fl)
        IN  /\ grow => (Len(blocks) < MaxBlocks /\ a \in AllocChoices(heap))
            /\ blocks' = e.blocks
            /\ blocks_cap' = e.cap
            /\ heap' = e.heap
            /\ free_list' = PopBack(fl)
            /\ objects' = [objects EXCEPT ![ptr] = "live"]
            /\ handed' = [handed EXCEPT ![ptr] = @ + 1]
            /\ rel_twice' = (rel_twice \/ e.ub)
            /\ ba_arg' = (IF ba_op = "free" THEN ba_arg ELSE NullPtr)
            /\ ba_ret' = ptr
            /\ ba_grew' = (Len(e.blocks) > Len(blocks))
            /\ fresh_run' = IF frees > 0
                            THEN <<>>
                            ELSE Append(fresh_run,
                                        [ptr |-> ptr, chunks |-> Len(e.blocks)])
            /\ status' \in Outcomes(e.ub \/ e.heap[ptr[1]] # "acquired")
    /\ ba_prev' = ba_op
    /\ ba_op' = "allocate"
    /\ UNCHANGED <<variant, td_bad, frees>>
    /\ UNCHANGED linVars

\* ptr->~T()
Destruct(objs, ptr) == [objs EXCEPT ![ptr] = "dead"]

\* free(ptr), ptr a pointer the caller holds
BA_free(ptr) ==
    /\ status = "alive"
    /\ frees < MaxFrees
    /\ handed[ptr] >= 1
    /\ objects' = Destruct(objects, ptr)
    /\ free_list' = PushBack(free_list, ptr)
    /\ handed' = [handed EXCEPT ![ptr] = @ - 1]
    /\ ba_prev' = ba_op
    /\ ba_op' = "free"
    /\ ba_arg' = ptr
    /\ ba_ret' = NullPtr
    /\ ba_grew' = FALSE
    /\ frees' = frees + 1
    /\ fresh_run' = <<>>
    /\ status' \in Outcomes(objects[ptr] # "live" \/ heap[ptr[1]] # "acquired")
    /\ UNCHANGED <<variant, blocks, blocks_cap, heap, td_bad, rel_twice>>
    /\ UNCHANGED linVars

\* A faulty variant of NullTest: the body of free runs for every pointer.
NullTest_missing(ptr) == TRUE

\* "if (ptr)" in free of Allocator.hpp.
NullTest(ptr) == ptr # NullPtr

\* free(nullptr) in Allocator.hpp: the body runs only if "if (ptr)" passes.
\* (allocator.hpp has no such test; a null argument is outside its contract.)
BA_free_null ==
    /\ status = "alive"
    /\ frees < MaxFrees
    /\ variant = "Allocator.hpp"
    /\ objects' = IF NullTest(NullPtr) THEN Destruct(objects, NullPtr) ELSE objects
    /\ free_list' = IF NullTest(NullPtr)
                    THEN PushBack(free_list, NullPtr)
                    ELSE free_list
    /\ ba_prev' = ba_op
    /\ ba_op' = "free_null"
    /\ ba_arg' = NullPtr
    /\ ba_ret' = NullPtr
    /\ ba_grew' = FALSE
    /\ frees' = frees + 1
    /\ fresh_run' = <<>>
    /\ UNCHANGED <<variant, status, blocks, blocks_cap, heap, handed, td_bad,
                   rel_twice>>
    /\ UNCHANGED linVars

\* The slots the destructor of allocator.hpp visits, in its order: every slot
\* of every block.
RECURSIVE TeardownSlots(_)
TeardownSlots(bs) ==
    IF bs = <<>>
    THEN <<>>
    ELSE [i \in 1 .. BlockSize |-> <<Head(bs).mem, i - 1>>] \o TeardownSlots(Tail(bs))

RECURSIVE DestructAll(_, _, _)
\* ptr->~T() on each slot of ss in turn; bad collects the slots that held no
\* live T when their destructor ran.
DestructAll(objs, bad, ss) ==
    IF ss = <<>>
    THEN [objects |-> objs, bad |-> bad]
    ELSE DestructAll(Destruct(objs, Head(ss)),
                     IF objs[Head(ss)] = "live" THEN bad ELSE bad \cup {Head(ss)},
                     Tail(ss))

\* The slots whose T the allocator's destructor destructs.
\* allocator.hpp: ~BlockAllocator() runs ptr->~T() on every slot.
\* Allocator.hpp: no destructor is declared; the implicit one destructs no T.
TeardownVisits(v, bs) ==
    IF v = "allocator.hpp" THEN TeardownSlots(bs) ELSE <<>>

\* Destruction of the allocator: the destructor body, then the members
\* free_list and blocks, whose Block records release their chunk.
BA_destroy ==
    /\ status = "alive"
    /\ LET d == DestructAll(objects, {}, TeardownVisits(variant, blocks))
           r == ReleaseAll(heap, blocks)
       IN  /\ objects' = d.objects
           /\ td_bad' = d.bad
           /\ heap' = r.heap
           /\ rel_twice' = (rel_twice \/ r.twice)
           /\ status' \in IF d.bad # {} \/ r.twice
                          THEN {"destroyed", "crashed"}
                          ELSE {"destroyed"}
    /\ blocks' = <<>>
    /\ blocks_cap' = 0
    /\ free_list' = <<>>
    /\ ba_prev' = ba_op
    /\ ba_op' = "destroy"
    /\ ba_arg' = NullPtr
    /\ ba_ret' = NullPtr
    /\ ba_grew' = FALSE
    /\ UNCHANGED <<variant, handed, frees, fresh_run>>
    /\ UNCHANGED linVars

\* ------------------------------------ BlockAllocator of Allocator.hpp, alone

\* A second allocator, of the Allocator.hpp kind, in a process of its own:
\* its chunk records, its free list and the pointer its last call returned.
TwinInit == [blocks |-> <<>>, free_list |-> <<>>, ret |-> NullPtr]

\* The address block.memory.resize() obtains.  The chunk vectors are moved
\* when blocks reallocates and none is released before the allocator is
\* destroyed, so the address is one never handed out: the lowest such.
TwinFreshAddr(t) == Len(t.blocks) + 1

\* allocate_block(): blocks.emplace_back(), resize, push the slots.
TwinAllocateBlock(t, a) ==
    [t EXCEPT !.blocks = Append(@, [mem |-> a]),
              !.free_list = PushSlots(@, a)]

\* allocate(args...)
TwinAllocate(t, a) ==
    LET g == IF NeedGrowth(t.free_list) THEN TwinAllocateBlock(t, a) ELSE t
    IN  [g EXCEPT !.free_list = PopBack(@), !.ret = Back(g.free_list)]

\* free(ptr)
TwinFree(t, ptr) ==
    IF NullTest(ptr)
    THEN [t EXCEPT !.free_list = PushBack(@, ptr), !.ret = NullPtr]
    ELSE [t EXCEPT !.ret = NullPtr]

\* --------------------------------------------------------- specifications

\* No call has been made.
NoMark == [stage |-> 0, size |-> 0, ret |-> NULL, off |-> 0]

LinearHistInit ==
    /\ lin_prev = "none"
    /\ lin_mark = NoMark
    /\ lin_run = <<>>

\* The mark after a call.  A successful allocate(k) starts a sequence
\* (stage 1), a free(k) right after it continues it (stage 2), an
\* allocate(k) right after that ends it (stage 3); any other call drops it.
MarkAfter ==
    IF lin_op' = "allocate"
    THEN IF lin_mark.stage = 2 /\ lin_mark.size = lin_arg'
         THEN [lin_mark EXCEPT !.stage = 3]
         ELSE IF lin_ret' # NULL
              THEN [stage |-> 1, size |-> lin_arg', ret |-> lin_ret', off |-> offset']
              ELSE NoMark
    ELSE IF lin_op' = "free" /\ lin_mark.stage = 1 /\ lin_mark.size = lin_arg'
         THEN [lin_mark EXCEPT !.stage = 2]
         ELSE NoMark

\* The run after a call: a successful allocate of a size in 1..capacity
\* extends it, a failed allocate leaves it, any other call ends it.
RunAfter ==
    IF lin_op' = "allocate"
    THEN IF lin_ret' = NULL
         THEN lin_run
         ELSE IF lin_arg' >= 1 /\ lin_arg' <= capacity
              THEN LET r == Append(lin_run, [ptr |-> lin_ret', size |-> lin_arg'])
                   IN  IF Len(r) > MaxRun THEN Tail(r) ELSE r
              ELSE <<>>
    ELSE <<>>

\* The record of the calls kept beside a LinearAllocator.
TrackCalls ==
    /\ lin_prev' = lin_op
    /\ lin_mark' = MarkAfter
    /\ UNCHANGED lin_run
    /\ UNCHANGED blockHistVars

\* The record of the run of allocations kept beside a LinearAllocator.
TrackRun ==
    /\ lin_run' = RunAfter
    /\ UNCHANGED <<lin_prev, lin_mark>>
    /\ UNCHANGED blockHistVars

\* No allocate() has grown the chunk sequence yet; the second allocator is
\* as constructed.
BlockHistInit ==
    /\ grow_run = <<>>
    /\ twin = TwinInit
    /\ pairs = {}

\* The pointers returned since the last allocate() that added a chunk, that
\* call included, as long as only allocate() was called.
GrowRunAfter ==
    IF ba_op' = "allocate"
    THEN IF ba_grew'
         THEN <<ba_ret'>>
         ELSE IF grow_run = <<>> THEN <<>> ELSE Append(grow_run, ba_ret')
    ELSE <<>>

TrackGrowth ==
    /\ grow_run' = GrowRunAfter
    /\ UNCHANGED <<twin, pairs>>
    /\ UNCHANGED linHistVars

\* The same allocate() on the second allocator; the caller keeps the two
\* pointers together.
TwinTrackAllocate ==
    /\ twin' = TwinAllocate(twin, TwinFreshAddr(twin))
    /\ pairs' = pairs \cup {<<ba_ret', twin'.ret>>}
    /\ UNCHANGED grow_run
    /\ UNCHANGED linHistVars

\* The same free(p) on the second allocator, with its pointer of the pair.
TwinTrackFree(pq) ==
    /\ twin' = TwinFree(twin, pq[2])
    /\ pairs' = pairs \ {pq}
    /\ UNCHANGED grow_run
    /\ UNCHANGED linHistVars

Init == LinearInit /\ BlockInit /\ LinearHistInit /\ BlockHistInit

\* One caller drives the BlockAllocator of allocator.hpp and the one of
\* Allocator.hpp with the same calls.
PairInit == Init /\ variant = "allocator.hpp"

NoTrack == UNCHANGED <<linHistVars, blockHistVars>>

LinearNext ==
    \/ \E mem \in Buffers, size \in SizeT : LA_init(mem, size) /\ NoTrack
    \/ \E size \in SizeT : LA_allocate(size) /\ NoTrack
    \/ \E size \in SizeT : LA_free(size) /\ NoTrack
    \/ LA_reset /\ NoTrack

LinearHistNext ==
    \/ \E mem \in Buffers, size \in SizeT : LA_init(mem, size) /\ TrackCalls
    \/ \E size \in SizeT : LA_allocate(size) /\ TrackCalls
    \/ \E size \in SizeT : LA_free(size) /\ TrackCalls
    \/ LA_reset /\ TrackCalls

LinearRunNext ==
    \/ \E mem \in Buffers, size \in SizeT : LA_init(mem, size) /\ TrackRun
    \/ \E size \in SizeT : LA_allocate(size) /\ TrackRun
    \/ \E size \in SizeT : LA_free(size) /\ TrackRun
    \/ LA_reset /\ TrackRun

BlockNext ==
    \/ BA_allocate /\ TrackGrowth
    \/ \E ptr \in Slots : BA_free(ptr) /\ TrackGrowth
    \/ BA_free_null /\ TrackGrowth
    \/ BA_destroy /\ TrackGrowth

PairNext ==
    \/ BA_allocate /\ TwinTrackAllocate
    \/ \E pq \in pairs : BA_free(pq[1]) /\ TwinTrackFree(pq)

\* The LinearAllocator alone.
SpecLinear == Init /\ [][LinearNext]_vars

\* The BlockAllocator alone.
SpecBlock == Init /\ [][BlockNext]_vars

\* The two BlockAllocators under the same calls.
SpecPair == PairInit /\ [][PairNext]_vars

\* The LinearAllocator, with the record of its calls.
SpecLinearHist == Init /\ [][LinearHistNext]_vars

\* The LinearAllocator, with the record of its run of allocations.
SpecLinearRun == Init /\ [][LinearRunNext]_vars

\* ----------------------------------------------------------------- claims

\* The slots of the chunks of blocks.
ChunkSlots == { <<blocks[k].mem, i>> : k \in 1 .. Len(blocks), i \in 0 .. (BlockSize - 1) }

\* How often ptr occurs in the free list fl.
Occurrences(fl, ptr) == Cardinality({ j \in 1 .. Len(fl) : fl[j] = ptr })

\* live: a constructed T, and the address is not in the free list.
IsLiveSlot(s) == objects[s] = "live" /\ Occurrences(free_list, s) = 0

\* free: no constructed T, and the address is in the free list exactly once.
IsFreeSlot(s) == objects[s] # "live" /\ Occurrences(free_list, s) = 1

\* C1: after any sequence of allocate() and free(p) calls with p a pointer
\* the caller holds, every slot of every chunk is live or free, and not both.
C1_SlotPartition ==
    status = "alive" => \A s \in ChunkSlots : IsLiveSlot(s) # IsFreeSlot(s)

\* C2: the teardown of the allocator destructs every object that was live
\* when it began, once, and destructs no slot that held no live object (a
\* freed slot, or one never constructed).
C2_TeardownDestructsLiveOnce ==
    status = "destroyed" =>
        /\ \A s \in Slots : objects[s] # "live"
        /\ td_bad = {}

\* C3: while the allocator is alive the memory of every chunk of blocks is
\* acquired, also after later growth steps; once the allocator is destroyed
\* every chunk has been released, and none was released twice.
C3_ChunksOwnedUntilDestroyed ==
    /\ status = "alive" =>
           /\ \A k \in 1 .. Len(blocks) : heap[blocks[k].mem] = "acquired"
           /\ ~rel_twice
    /\ status = "destroyed" =>
           /\ \A a \in Addrs : heap[a] # "acquired"
           /\ ~rel_twice

\* C4: no two pointers the caller holds at the same time (returned by
\* allocate() and not freed since) are equal.
C4_LivePointersDistinct ==
    status = "alive" => \A s \in Slots : handed[s] <= 1

\* C5: an allocate() right after free(p) returns p and adds no chunk.
C5_LifoReuse ==
    (ba_op = "allocate" /\ ba_prev = "free") =>
        (ba_ret = ba_arg /\ ~ba_grew)

\* C5 witness: free(p) then allocate() happened while other slots were free
\* too, and the allocate returned p.
C5_Witness ==
    /\ ba_op = "allocate"
    /\ ba_prev = "free"
    /\ ba_ret = ba_arg
    /\ ba_arg # NullPtr
    /\ Len(free_list) >= 1
    /\ status = "alive"

\* C6: on a fresh allocator, BlockSize + 1 allocate() calls with no free in
\* between: the first BlockSize calls leave one chunk and return pointers
\* into it, the next call adds exactly one chunk and returns a pointer into
\* another chunk.
C6_GrowthAtBoundary ==
    Len(fresh_run) >= BlockSize + 1 =>
        /\ \A k \in 1 .. BlockSize :
               /\ fresh_run[k].chunks = 1
               /\ fresh_run[k].ptr[1] = fresh_run[1].ptr[1]
        /\ fresh_run[BlockSize + 1].chunks = 2
        /\ fresh_run[BlockSize + 1].ptr[1] # fresh_run[1].ptr[1]

\* C6 witness: the call after the first BlockSize calls has been made.
C6_Witness ==
    /\ Len(fresh_run) = BlockSize + 1
    /\ ba_grew
    /\ Len(blocks) = 2

\* The free list a growth step leaves after allocate popped one slot of the
\* new chunk at address a.
FreshChunkRest(a) == [i \in 1 .. (BlockSize - 1) |-> <<a, i - 1>>]

\* C7: allocate() adds one chunk of BlockSize slots (all pushed, then the
\* last popped) when the free list is empty at the call, and no chunk
\* otherwise; free leaves the chunks as they are; the number of chunks never
\* decreases under allocate and free.
C7_GrowthRule ==
    [][ /\ ba_op' = "allocate" =>
            IF free_list = <<>>
            THEN \E a \in Addrs :
                    /\ blocks' = Append(blocks, [mem |-> a])
                    /\ free_list' = FreshChunkRest(a)
                    /\ ba_ret' = <<a, BlockSize - 1>>
            ELSE blocks' = blocks
        /\ ba_op' \in {"free", "free_null"} => blocks' = blocks
        /\ ba_op' \in {"allocate", "free", "free_null"} =>
            Len(blocks') >= Len(blocks)
      ]_vars

\* C7 witness: an allocate() that found the free list empty added a second
\* chunk, after a free() had been made.
C7_Witness ==
    /\ ba_op = "allocate"
    /\ ba_grew
    /\ Len(blocks) = 2
    /\ frees >= 1
    /\ free_list = FreshChunkRest(blocks[2].mem)

\* C8: 0 <= offset <= capacity, whatever sizes are passed.
C8_OffsetInvariant == 0 <= offset /\ offset <= capacity

\* C8 witness: free(size) with size above the offset brought a positive
\* offset back to 0.
C8_Witness ==
    /\ lin_op = "free"
    /\ lin_arg > capacity
    /\ capacity > 0
    /\ offset = 0

\* C9: allocate(size) with offset + size <= capacity returns data + offset
\* and adds size to offset; data and capacity stay.
C9_AllocateSucceeds ==
    [][ (lin_op' = "allocate" /\ offset + lin_arg' <= capacity) =>
            /\ lin_ret' = data + offset
            /\ offset' = offset + lin_arg'
            /\ data' = data
            /\ capacity' = capacity
      ]_vars

\* C9 witness: a successful allocate of a positive size at a positive offset.
C9_Witness ==
    /\ lin_op = "allocate"
    /\ lin_arg > 0
    /\ offset > lin_arg
    /\ lin_ret = data + (offset - lin_arg)
    /\ data # NULL

\* C10: allocate(size) with offset + size > capacity returns nullptr and
\* leaves data, capacity and offset as they were.
C10_AllocateFails ==
    [][ (lin_op' = "allocate" /\ offset + lin_arg' > capacity) =>
            /\ lin_ret' = NULL
            /\ data' = data
            /\ capacity' = capacity
            /\ offset' = offset
      ]_vars

\* C11: free(size) lowers offset by size, or to 0 when size >= offset; the
\* offset never goes below 0 (no wrap), and data and capacity stay.
C11_FreeClamps ==
    [][ lin_op' = "free" =>
            /\ IF lin_arg' >= offset
               THEN offset' = 0
               ELSE offset' = offset - lin_arg'
            /\ offset' >= 0
            /\ offset' <= offset
            /\ data' = data
            /\ capacity' = capacity
      ]_vars

\* C11 witness: a free of a positive size that left a positive offset.
C11_Witness ==
    /\ lin_op = "free"
    /\ lin_arg > 0
    /\ offset > 0
    /\ offset + lin_arg <= capacity

\* C12: reset() sets offset to 0, and on an initialized allocator the
\* allocate(capacity) right after it succeeds and returns the buffer start.
C12_ResetRestores ==
    /\ lin_op = "reset" => offset = 0
    /\ (lin_prev = "reset" /\ lin_op = "allocate" /\ lin_arg = capacity
        /\ data # NULL) =>
           (lin_ret = data /\ offset = capacity)

\* C12 witness: allocate(capacity) right after a reset, capacity positive.
C12_Witness ==
    /\ lin_prev = "reset"
    /\ lin_op = "allocate"
    /\ lin_arg = capacity
    /\ capacity > 0
    /\ data # NULL
    /\ lin_ret = data

\* C13: after allocate(k), free(k), allocate(k), the first call having
\* succeeded, the second allocate returned the address of the first and the
\* offset is what it was after the first.
C13_RoundTrip ==
    lin_mark.stage = 3 =>
        (lin_ret = lin_mark.ret /\ offset = lin_mark.off)

\* C14 as claimed: on a freshly initialized allocator, for every capacity
\* (0 too) and every size <= capacity, allocate(size) succeeds and returns
\* an address a with data <= a < data + capacity.
C14_FreshInRange ==
    (lin_prev = "init" /\ lin_op = "allocate" /\ lin_arg <= capacity) =>
        (lin_ret # NULL /\ data <= lin_ret /\ lin_ret < data + capacity)

\* C14, amended: on a freshly initialized allocator, for every size <=
\* capacity, allocate(size) succeeds, returns the buffer start and leaves
\* offset = size; the address lies in [data, data + capacity) when
\* capacity >= 1 (with capacity 0 that range is empty and the address
\* returned for size 0 is data = data + capacity).
C14_FreshAllocation ==
    (lin_prev = "init" /\ lin_op = "allocate" /\ lin_arg <= capacity) =>
        /\ lin_ret # NULL
        /\ lin_ret = data
        /\ offset = lin_arg
        /\ capacity >= 1 => (data <= lin_ret /\ lin_ret < data + capacity)
        /\ capacity = 0 => lin_ret = data + capacity

\* C14 witness: allocate(capacity) right after init, capacity positive.
C14_Witness ==
    /\ lin_prev = "init"
    /\ lin_op = "allocate"
    /\ lin_arg = capacity
    /\ capacity >= 1
    /\ lin_ret = data
    /\ offset = capacity

\* C15: allocate(capacity) on a freshly initialized allocator succeeds, and
\* whenever offset = capacity an allocate(size) with size >= 1 fails and
\* leaves the offset.
C15_ExactExhaustion ==
    [][ /\ (lin_op = "init" /\ lin_op' = "allocate" /\ lin_arg' = capacity) =>
               (lin_ret' = data /\ offset' = capacity)
        /\ (offset = capacity /\ lin_op' = "allocate" /\ lin_arg' >= 1) =>
               (lin_ret' = NULL /\ offset' = offset)
      ]_vars

\* C16: allocate(size) hands out memory only when offset + size, computed
\* without wrap, is at most capacity, so the bytes handed out end at or
\* before data + capacity; otherwise it returns nullptr and leaves offset.
C16_NoWrapAllocate ==
    [][ lin_op' = "allocate" =>
            IF offset + lin_arg' <= capacity
            THEN lin_ret' = NULL \/ lin_ret' + lin_arg' <= data + capacity
            ELSE lin_ret' = NULL /\ offset' = offset
      ]_vars

\* C17: the byte ranges of a run of successful allocate calls of sizes in
\* 1..capacity lie inside [data, data + capacity) and each ends at or before
\* the start of every later one.
C17_RunDisjoint ==
    /\ \A i \in 1 .. Len(lin_run) :
           /\ data <= lin_run[i].ptr
           /\ lin_run[i].ptr + lin_run[i].size <= data + capacity
    /\ \A i, j \in 1 .. Len(lin_run) :
           i < j => lin_run[i].ptr + lin_run[i].size <= lin_run[j].ptr

\* C18: in Allocator.hpp, free(nullptr) destructs nothing and leaves the
\* chunks and the free list as they were; the free list never holds a null
\* address and allocate() never returns one.
C18_NullHandling ==
    [][ variant = "Allocator.hpp" =>
            /\ ba_op' = "free_null" =>
                   (objects' = objects /\ blocks' = blocks
                    /\ free_list' = free_list)
            /\ \A i \in 1 .. Len(free_list') : free_list'[i] # NullPtr
            /\ ba_op' = "allocate" => ba_ret' # NullPtr
      ]_vars

\* C18 witness: an allocate() right after free(nullptr) that takes its slot
\* from the free list.
C18_Witness ==
    /\ variant = "Allocator.hpp"
    /\ ba_prev = "free_null"
    /\ ba_op = "allocate"
    /\ ~ba_grew
    /\ ba_ret # NullPtr

\* C19: the pointers returned by consecutive allocate() calls, from the one
\* that added a chunk on, are that chunk's slots BlockSize - 1, BlockSize - 2,
\* ... down to 0, and the call after slot 0 adds the next chunk.
C19_DescendingSlots ==
    /\ Len(grow_run) <= BlockSize
    /\ \A i \in 1 .. Len(grow_run) :
           grow_run[i] = <<blocks[Len(blocks)].mem, BlockSize - i>>
    /\ \A i, j \in 1 .. Len(grow_run) :
           i < j => (grow_run[i][1] = grow_run[j][1]
                     /\ grow_run[i][2] > grow_run[j][2])

\* C19 witness: all BlockSize slots of a chunk have been returned in a row,
\* the chunk being one added after a free was made.
C19_Witness ==
    /\ Len(grow_run) = BlockSize
    /\ grow_run[BlockSize][2] = 0
    /\ Len(blocks) >= 2
    /\ frees >= 1
    /\ status = "alive"

\* The chunks of bs that start at the chunk address of pointer p.
ChunkIndices(bs, p) == { i \in 1 .. Len(bs) : bs[i].mem = p[1] }

\* p in the chunks bs and q in the chunks cs are the same (chunk index, slot
\* index).
SamePlace(bs, p, cs, q) ==
    /\ p[2] = q[2]
    /\ ChunkIndices(bs, p) = ChunkIndices(cs, q)
    /\ ChunkIndices(bs, p) # {}

\* C20: given the same calls, the BlockAllocator of allocator.hpp and the one
\* of Allocator.hpp both return from every call, with the same (chunk index,
\* slot index) from every allocate, and have the same number of chunks and
\* the same free list, entry by entry.
C20_VariantsAgree ==
    /\ status = "alive"
    /\ Len(blocks) = Len(twin.blocks)
    /\ Len(free_list) = Len(twin.free_list)
    /\ \A i \in 1 .. Len(free_list) :
           SamePlace(blocks, free_list[i], twin.blocks, twin.free_list[i])
    /\ ba_op = "allocate" => SamePlace(blocks, ba_ret, twin.blocks, twin.ret)

====
